---- MODULE Spec2Model ----
(***************************************************************************)
(* Model of the chat session manager (ChatService), the intent classifier  *)
(* (OpenAIService.classifyIntent) and the retriever                        *)
(* (DocumentProcessingService.searchDocuments) of the RAG customer-support *)
(* server.                                                                 *)
(*                                                                         *)
(* Encoding.  Times are integer milliseconds.  Scores and confidences are  *)
(* integer hundredths (0.6 is 60); a computed confidence is the exact      *)
(* fraction n/d of hundredths, or NaN.  A session object lives in `heap`   *)
(* (JavaScript objects are references: a suspended processMessage keeps    *)
(* its session object after the Map entry is deleted); `chatSessions` is   *)
(* the key set of the Map.  uuidv4() is a fresh value: session ids are     *)
(* drawn from a counter, a message id is the pair (session, ordinal).      *)
(* The fields userId, createdAt and metadata of a session are written once *)
(* and never read by the operations modelled, and are left out.            *)
(*                                                                         *)
(* Documents.  A text is its sentences (what split(/[.!?]+/) leaves, each  *)
(* trimmed), a sentence its words, a word its length in characters; words  *)
(* are joined by one space.  A vector id `${documentId}_chunk_${index}` is *)
(* the pair of its two parts.  Of a file only path and extension, of the   *)
(* upload metadata only documentId are modelled.                           *)
(***************************************************************************)
EXTENDS Integers, Sequences, FiniteSets, TLC

\* ------------------------------------------------------------- bounds
MaxSessions == 1      \* sessions ever created (Spec)
MaxInFlight == 1      \* processMessage calls suspended at once (Spec)
MaxMsgs == 2          \* messages appended or about to be, all sessions (Spec)
MaxDocs == 2          \* matches the vector index returns at most
MaxHours == 1         \* clock jumps of one sessionTimeout
HistSessions == 1     \* sessions ever created (SpecHistory)
HistInFlight == 1     \* suspended processMessage calls (SpecHistory)
HistMsgs == 42        \* messages appended or about to be (SpecHistory)
MaxIngests == 2       \* documents ever uploaded (SpecIngest)
MaxSentences == 3     \* sentences of a text handed to createChunks (SpecChunks)
SweepSessions == 2    \* sessions ever created (SpecSweep)
PairSessions == 2     \* sessions ever created (SpecPair)
PairInFlight == 2     \* suspended processMessage calls (SpecPair)
PairMsgs == 4         \* messages appended or about to be (SpecPair)
ConcSessions == 1     \* sessions ever created (SpecConcurrent)
ConcInFlight == 2     \* suspended processMessage calls (SpecConcurrent)
ConcMsgs == 44        \* messages appended or about to be (SpecConcurrent)

\* -------------------------------------------------- program constants
maxHistoryLength == 20
sessionTimeout == 3600000
minScore == 60
defaultTopK == 5
historyWindow == 10
floorConfidence == 10
defaultIntentConfidence == 50
avgWeight == 7
intentWeight == 3
maxConfidence == 100
defaultMinScore == 70
chunkSize == 1000
chunkOverlap == 200
overlapWordDivisor == 6
minChunkLength == 50

Null == 0
NoTime == 0 - 1

Min(a, b) == IF a < b THEN a ELSE b

\* Array.prototype.slice(-k)
SliceLast(s, k) ==
  IF Len(s) <= k THEN s ELSE SubSeq(s, Len(s) - k + 1, Len(s))

VARIABLES now, chatSessions, heap, nextId, calls, last,
          ingest, vectorIndex, tempFiles

vars == <<now, chatSessions, heap, nextId, calls, last,
          ingest, vectorIndex, tempFiles>>

\* the state of the document routes
docVars == <<ingest, vectorIndex, tempFiles>>

\* the state of the chat service
chatVars == <<now, chatSessions, heap, calls>>

MessageTexts == {"m1", "m2"}

\* ------------------------------------------------------ classifier
Categories ==
  {"soporte_tecnico", "facturacion", "producto_info", "cuenta_usuario",
   "devolucion_reembolso", "general"}

\* A value JSON.parse can return: an object with the two fields (either may
\* be missing, confianza may be a number or a non-numeric value), null, or
\* another non-object value (number, string, array).
Intent(k, cat, ck, cv) ==
  [kind |-> k, categoria |-> cat, confKind |-> ck, confianza |-> cv]

FallbackUnparseable == Intent("object", "general", "num", 50)
FallbackProviderError == Intent("object", "general", "num", 0)

\* What the provider call of classifyIntent can do: fail, or return text that
\* JSON.parse rejects (parses = FALSE) or accepts with the given value.
ProviderFailure == [status |-> "error", parses |-> FALSE, value |-> Intent("null", "undefined", "undefined", 0)]
ProviderText(parses, v) == [status |-> "ok", parses |-> parses, value |-> v]

ProviderOutputs ==
  { ProviderFailure,
    ProviderText(FALSE, Intent("null", "undefined", "undefined", 0)),
    ProviderText(TRUE, Intent("object", "soporte_tecnico", "num", 95)),
    ProviderText(TRUE, Intent("object", "general", "num", 0 - 200)),
    ProviderText(TRUE, Intent("object", "facturacion", "undefined", 0)),
    ProviderText(TRUE, Intent("object", "producto_info", "num", 95)),
    ProviderText(TRUE, Intent("object", "cuenta_usuario", "num", 95)),
    ProviderText(TRUE, Intent("object", "devolucion_reembolso", "num", 95)),
    ProviderText(TRUE, Intent("object", "otra", "nan", 0)),
    ProviderText(TRUE, Intent("null", "undefined", "undefined", 0)) }

HistProviderOutputs ==
  { ProviderText(TRUE, Intent("object", "soporte_tecnico", "num", 95)) }

\* Mutant: classifyIntent lets a provider failure through as no value.
classifyIntent_Rethrow(out) ==
  IF out.status = "error" THEN Intent("null", "undefined", "undefined", 0)
  ELSE IF ~out.parses THEN FallbackUnparseable
  ELSE out.value

classifyIntent(out) ==
  IF out.status = "error" THEN FallbackProviderError
  ELSE IF ~out.parses THEN FallbackUnparseable
  ELSE out.value

\* Mutant: the table with the entries of facturacion and producto_info swapped.
mapIntentToCategory_Swapped(categoria) ==
  CASE categoria = "soporte_tecnico" -> "technical"
    [] categoria = "facturacion" -> "product"
    [] categoria = "producto_info" -> "billing"
    [] categoria = "cuenta_usuario" -> "account"
    [] categoria = "devolucion_reembolso" -> "returns"
    [] OTHER -> "null"

mapIntentToCategory(categoria) ==
  CASE categoria = "soporte_tecnico" -> "technical"
    [] categoria = "facturacion" -> "billing"
    [] categoria = "producto_info" -> "product"
    [] categoria = "cuenta_usuario" -> "account"
    [] categoria = "devolucion_reembolso" -> "returns"
    [] OTHER -> "null"

\* -------------------------------------------------------- retriever
Scores == {50, 60, 100}

Doc(i, s) == [id |-> i, score |-> s]

\* The matches of the vector index for one query: at most k entries, ranked
\* by descending score; an entry is named by its rank.
IndexResults(k) ==
  UNION { { r \in [1..n -> Scores] :
              \A i \in 1..n, j \in 1..n : i < j => r[i] >= r[j] } :
          n \in 0..Min(k, MaxDocs) }

Matches(r) == [i \in 1..Len(r) |-> Doc(i, r[i])]

HistIndexResults == { <<100>> }

\* The metadata filter searchDocuments sends to the index: none for a falsy
\* category, else equality on the category.
searchFilter(category) ==
  IF category = "null" THEN [kind |-> "none", category |-> "null"]
  ELSE [kind |-> "eq", category |-> category]

\* Mutant: searchDocuments without the score filter.
searchDocuments_NoFilter(matches, threshold) == matches

searchDocuments(matches, threshold) ==
  SelectSeq(matches, LAMBDA m : m.score >= threshold)

\* -------------------------------------------------------- confidence
RECURSIVE SumScores(_)
SumScores(docs) ==
  IF docs = <<>> THEN 0 ELSE Head(docs).score + SumScores(Tail(docs))

Conf(n, d) == [nan |-> FALSE, n |-> n, d |-> d]
NaN == [nan |-> TRUE, n |-> 0, d |-> 1]

\* intent.confianza || 0.5 : undefined and 0 are falsy
intentConfidenceOf(intent) ==
  IF intent.confKind = "num" /\ intent.confianza # 0
  THEN intent.confianza ELSE defaultIntentConfidence

\* Mutant: the floor is scaled by the intent confidence.
calculateConfidence_ScaledFloor(relevantDocs, intent) ==
  IF intent.confKind = "nan" THEN NaN
  ELSE IF Len(relevantDocs) = 0
  THEN Conf(floorConfidence * intentConfidenceOf(intent), maxConfidence)
  ELSE LET len == Len(relevantDocs)
           n == avgWeight * SumScores(relevantDocs)
                  + intentWeight * intentConfidenceOf(intent) * len
           d == 10 * len
       IN  IF n < maxConfidence * d THEN Conf(n, d) ELSE Conf(maxConfidence * d, d)

calculateConfidence(relevantDocs, intent) ==
  IF Len(relevantDocs) = 0 THEN Conf(floorConfidence, 1)
  ELSE IF intent.confKind = "nan" THEN NaN
  ELSE LET len == Len(relevantDocs)
           n == avgWeight * SumScores(relevantDocs)
                  + intentWeight * intentConfidenceOf(intent) * len
           d == 10 * len
       IN  IF n < maxConfidence * d THEN Conf(n, d) ELSE Conf(maxConfidence * d, d)

\* ---------------------------------------------------------- sessions
\* Mutant: create stores the welcome string as a first message.
NewSession_Welcome(sid, t) ==
  [id |-> sid, lastActivity |-> t,
   messages |-> << [id |-> <<sid, 0>>, role |-> "assistant", content |-> "welcome",
                    timestamp |-> t] >>,
   isActive |-> TRUE, endedAt |-> NoTime, seq |-> 0]

NewSession(sid, t) ==
  [id |-> sid, lastActivity |-> t, messages |-> <<>>, isActive |-> TRUE,
   endedAt |-> NoTime, seq |-> 0]

Expired(session, t) == t - session.lastActivity > sessionTimeout

\* Mutant: getSession without the expiry check.
getSession_NoExpiry(store, h, sid, t) ==
  IF sid \notin store THEN Null ELSE sid

\* getSession: the value returned (Null or the session's id) ...
getSession(store, h, sid, t) ==
  IF sid \notin store THEN Null
  ELSE IF Expired(h[sid], t) THEN Null
  ELSE sid

\* Mutant: getSession that leaves an expired entry in the Map.
getSessionStore_NoDelete(store, h, sid, t) == store

\* ... and the Map after the call (an expired entry is deleted)
getSessionStore(store, h, sid, t) ==
  IF sid \in store /\ Expired(h[sid], t) THEN store \ {sid} ELSE store

\* Mutant: the sweep also removes a session exactly at its timeout.
cleanExpiredSessions_AtTimeout(store, h, t) ==
  { s \in store : t - h[s].lastActivity < sessionTimeout }

cleanExpiredSessions(store, h, t) ==
  { s \in store : ~Expired(h[s], t) }

\* Mutant: the whole stored list is handed over.
getChatHistory_Whole(session) == session.messages

getChatHistory(session) == SliceLast(session.messages, historyWindow)

\* Mutant: the trim keeps maxHistoryLength messages, not twice as many.
TrimHistory_Half(messages) ==
  IF Len(messages) > maxHistoryLength * 2
  THEN SliceLast(messages, maxHistoryLength)
  ELSE messages

\* Mutant: the trim keeps one message less, an odd number.
TrimHistory_Odd(messages) ==
  IF Len(messages) > maxHistoryLength * 2
  THEN SliceLast(messages, maxHistoryLength * 2 - 1)
  ELSE messages

TrimHistory(messages) ==
  IF Len(messages) > maxHistoryLength * 2
  THEN SliceLast(messages, maxHistoryLength * 2)
  ELSE messages

\* ------------------------------------------------- suspended calls
IdleCall == [pc |-> "idle"]

Busy(cs) == { c \in DOMAIN cs : cs[c].pc # "idle" }

\* Session objects still referenced: by the Map or by a suspended call.
Live(store, cs) == store \cup { cs[c].sid : c \in Busy(cs) }

Collect(h, store, cs) == [s \in Live(store, cs) |-> h[s]]

RECURSIVE SumSeq(_, _)
SumSeq(h, S) ==
  IF S = {} THEN 0
  ELSE LET s == CHOOSE x \in S : TRUE IN h[s].seq + SumSeq(h, S \ {s})

\* messages appended so far plus those the suspended calls will append
Committed == SumSeq(heap, DOMAIN heap) + 2 * Cardinality(Busy(calls))

\* The module-level singleton after `new ChatService()`; `slots` call slots.
InitWith(slots) ==
  /\ now = 0
  /\ chatSessions = {}
  /\ heap = [s \in {} |-> NewSession(s, 0)]
  /\ nextId = 1
  /\ calls = [c \in 1..slots |-> IdleCall]
  /\ last = [op |-> "init"]
  /\ ingest = [pc |-> "idle", uploads |-> 0]
  /\ vectorIndex = {}
  /\ tempFiles = {}

Init == InitWith(MaxInFlight)

\* ------------------------------------------------------- operations
createChatSession(limit) ==
  /\ nextId <= limit
  /\ chatSessions' = chatSessions \cup {nextId}
  /\ heap' = [s \in Live(chatSessions', calls) |->
               IF s = nextId THEN NewSession(nextId, now) ELSE heap[s]]
  /\ nextId' = nextId + 1
  /\ last' = [op |-> "create", sessionId |-> nextId, createdAt |-> now]
  /\ UNCHANGED <<docVars, now, calls>>

\* GET /session/:sessionId and the socket handlers: a bare getSession
GetSession(sid) ==
  /\ chatSessions' = getSessionStore(chatSessions, heap, sid, now)
  /\ heap' = Collect(heap, chatSessions', calls)
  /\ last' = [op |-> "get", sid |-> sid,
              session |-> getSession(chatSessions, heap, sid, now),
              reaped |-> chatSessions' # chatSessions]
  /\ UNCHANGED <<docVars, now, nextId, calls>>

\* Mutant: ending one session marks every stored session as ended.
endChatSession_All(sid) ==
  LET session == getSession(chatSessions, heap, sid, now)
      ended == IF session = Null THEN heap
               ELSE [s \in DOMAIN heap |->
                       IF s \in chatSessions
                       THEN [heap[s] EXCEPT !.isActive = FALSE, !.endedAt = now]
                       ELSE heap[s]]
  IN  /\ chatSessions' = getSessionStore(chatSessions, heap, sid, now)
      /\ heap' = Collect(ended, chatSessions', calls)
      /\ last' = [op |-> "end", sid |-> sid, success |-> session # Null,
                  reaped |-> chatSessions' # chatSessions]
      /\ UNCHANGED <<docVars, now, nextId, calls>>

endChatSession(sid) ==
  LET session == getSession(chatSessions, heap, sid, now)
      ended == IF session = Null THEN heap
               ELSE [heap EXCEPT ![sid].isActive = FALSE, ![sid].endedAt = now]
  IN  /\ chatSessions' = getSessionStore(chatSessions, heap, sid, now)
      /\ heap' = Collect(ended, chatSessions', calls)
      /\ last' = [op |-> "end", sid |-> sid, success |-> session # Null,
                  reaped |-> chatSessions' # chatSessions]
      /\ UNCHANGED <<docVars, now, nextId, calls>>

ActiveEntry(s) ==
  [sessionId |-> s, lastActivity |-> heap[s].lastActivity,
   messageCount |-> Len(heap[s].messages), isActive |-> heap[s].isActive]

getActiveSessions ==
  /\ last' = [op |-> "list",
              sessions |-> { ActiveEntry(s) :
                             s \in { x \in chatSessions :
                                       now - heap[x].lastActivity <= sessionTimeout } }]
  /\ UNCHANGED <<docVars, now, chatSessions, heap, nextId, calls>>

exportSessionData(sid) ==
  /\ last' = [op |-> "export", sid |-> sid,
              found |-> sid \in chatSessions,
              data |-> IF sid \in chatSessions
                       THEN [sessionId |-> sid, endedAt |-> heap[sid].endedAt,
                             isActive |-> heap[sid].isActive,
                             messages |-> heap[sid].messages]
                       ELSE [sessionId |-> Null]]
  /\ UNCHANGED <<docVars, now, chatSessions, heap, nextId, calls>>

\* POST /api/admin/system/cleanup: a bare cleanExpiredSessions
SweepExpired ==
  /\ chatSessions' = cleanExpiredSessions(chatSessions, heap, now)
  /\ heap' = Collect(heap, chatSessions', calls)
  /\ last' = [op |-> "sweep"]
  /\ UNCHANGED <<docVars, now, nextId, calls>>

\* new Date() moves on.  The instants requests arrive at are the whole
\* multiples of sessionTimeout and the millisecond after each, which puts a
\* session exactly at, just before and just past its timeout.
Tick(d) ==
  /\ IF d = 1 THEN now % sessionTimeout = 0
              ELSE now \div sessionTimeout < MaxHours
  /\ now' = now + d
  /\ last' = [op |-> "tick"]
  /\ UNCHANGED <<docVars, chatSessions, heap, nextId, calls>>

\* ---------------------------------------------------- processMessage
\* The handler runs to its first await, and from each await to the next.
FreeSlot(c) == calls[c].pc = "idle" /\ \A b \in DOMAIN calls : b < c => calls[b].pc # "idle"

Return(c) == [calls EXCEPT ![c] = IdleCall]

\* lines 57-69: getSession, sweep, bump lastActivity, call the classifier
PMStart(c, sid, message, maxResults, budget) ==
  LET session == getSession(chatSessions, heap, sid, now)
      store1 == getSessionStore(chatSessions, heap, sid, now)
  IN  /\ FreeSlot(c)
      /\ IF session = Null
         THEN /\ chatSessions' = store1
              /\ calls' = calls
              /\ heap' = Collect(heap, chatSessions', calls')
              /\ last' = [op |-> "processMessage", status |-> "not_found",
                          sid |-> sid, call |-> c,
                          reaped |-> chatSessions' # chatSessions]
         ELSE /\ Committed + 2 <= budget
              /\ chatSessions' = cleanExpiredSessions(store1, heap, now)
              /\ calls' = [calls EXCEPT ![c] =
                             [pc |-> "classify", sid |-> sid, message |-> message,
                              maxResults |-> maxResults]]
              /\ heap' = Collect([heap EXCEPT ![sid].lastActivity = now],
                                 chatSessions', calls')
              /\ last' = [op |-> "processMessage", status |-> "classifying",
                          sid |-> sid, call |-> c]
      /\ UNCHANGED <<docVars, now, nextId>>

\* lines 69-78: the classifier answers; build searchOptions, call the retriever
PMClassified(c, out) ==
  LET call == calls[c]
      intent == classifyIntent(out)
  IN  /\ call.pc = "classify"
      /\ IF intent.kind = "null"
         THEN \* intent.categoria on null throws a TypeError, rethrown at 132
              /\ calls' = Return(c)
              /\ last' = [op |-> "processMessage", status |-> "error",
                          sid |-> call.sid, call |-> c, at |-> "classify",
                          provider |-> [status |-> out.status, parses |-> out.parses],
                          intent |-> intent]
         ELSE /\ calls' = [calls EXCEPT ![c] =
                             [pc |-> "search", sid |-> call.sid,
                              message |-> call.message, intent |-> intent,
                              topK |-> IF call.maxResults = 0 THEN defaultTopK
                                       ELSE call.maxResults,
                              category |-> mapIntentToCategory(intent.categoria),
                              filter |-> searchFilter(
                                           mapIntentToCategory(intent.categoria))]]
              /\ last' = [op |-> "processMessage", status |-> "searching",
                          sid |-> call.sid, call |-> c,
                          provider |-> [status |-> out.status, parses |-> out.parses],
                          intent |-> intent]
      /\ heap' = Collect(heap, chatSessions, calls')
      /\ UNCHANGED <<docVars, now, chatSessions, nextId>>

\* lines 78-88: the retriever answers; take the history, call the generator
PMSearched(c, r) ==
  LET call == calls[c]
  IN  /\ call.pc = "search"
      /\ Len(r) <= call.topK
      /\ calls' = [calls EXCEPT ![c] =
                     [pc |-> "generate", sid |-> call.sid, message |-> call.message,
                      intent |-> call.intent,
                      relevantDocs |-> searchDocuments(Matches(r), minScore),
                      chatHistory |-> getChatHistory(heap[call.sid])]]
      /\ last' = [op |-> "processMessage", status |-> "generating",
                  sid |-> call.sid, call |-> c]
      /\ UNCHANGED <<docVars, now, chatSessions, heap, nextId>>

\* searchDocuments throws (embedding or index query failed), rethrown at 132
PMSearchFailed(c) ==
  LET call == calls[c]
  IN  /\ call.pc = "search"
      /\ calls' = Return(c)
      /\ heap' = Collect(heap, chatSessions, calls')
      /\ last' = [op |-> "processMessage", status |-> "error",
                  sid |-> call.sid, call |-> c, at |-> "search"]
      /\ UNCHANGED <<docVars, now, chatSessions, nextId>>

UserMessage(session, call, t) ==
  [id |-> <<session.id, session.seq + 1>>, role |-> "user",
   content |-> call.message, timestamp |-> t, intent |-> call.intent]

Sources(relevantDocs) ==
  [i \in 1..Len(relevantDocs) |->
     [documentId |-> relevantDocs[i].id, score |-> relevantDocs[i].score]]

AssistantMessage(session, call, response, t) ==
  [id |-> <<session.id, session.seq + 2>>, role |-> "assistant",
   content |-> response, timestamp |-> t,
   sources |-> Sources(call.relevantDocs),
   confidence |-> calculateConfidence(call.relevantDocs, call.intent)]

\* Mutant: the pair is put in front of the list (unshift), not at its end.
PushAndTrim_Unshift(messages, userMessage, assistantMessage) ==
  TrimHistory(<<userMessage, assistantMessage>> \o messages)

\* session.messages.push(userMessage, assistantMessage) and the trim
PushAndTrim(messages, userMessage, assistantMessage) ==
  TrimHistory(messages \o <<userMessage, assistantMessage>>)

\* lines 90-128: the generator answers; append the pair, trim, return
PMGenerated(c, response) ==
  LET call == calls[c]
      session == heap[call.sid]
      userMessage == UserMessage(session, call, now)
      assistantMessage == AssistantMessage(session, call, response, now)
      appended == [heap EXCEPT
                     ![call.sid].messages =
                        PushAndTrim(session.messages, userMessage, assistantMessage),
                     ![call.sid].seq = session.seq + 2]
  IN  /\ call.pc = "generate"
      /\ calls' = Return(c)
      /\ heap' = Collect(appended, chatSessions, calls')
      /\ last' = [op |-> "processMessage", status |-> "ok",
                  sid |-> call.sid, call |-> c,
                  messageId |-> assistantMessage.id, response |-> response,
                  sources |-> assistantMessage.sources, intent |-> call.intent,
                  confidence |-> assistantMessage.confidence,
                  timestamp |-> assistantMessage.timestamp,
                  userMessage |-> userMessage,
                  assistantMessage |-> assistantMessage]
      /\ UNCHANGED <<docVars, now, chatSessions, nextId>>

\* Mutant: the user message is stored before the generator is awaited, so a
\* failed generation leaves it behind.
PMGenerateFailed_KeepsUserMessage(c) ==
  LET call == calls[c]
      session == heap[call.sid]
      appended == [heap EXCEPT
                     ![call.sid].messages =
                        Append(session.messages, UserMessage(session, call, now)),
                     ![call.sid].seq = session.seq + 2]
  IN  /\ call.pc = "generate"
      /\ calls' = Return(c)
      /\ heap' = Collect(appended, chatSessions, calls')
      /\ last' = [op |-> "processMessage", status |-> "error",
                  sid |-> call.sid, call |-> c, at |-> "generate"]
      /\ UNCHANGED <<docVars, now, chatSessions, nextId>>

\* generateRAGResponse throws, rethrown at 132
PMGenerateFailed(c) ==
  LET call == calls[c]
  IN  /\ call.pc = "generate"
      /\ calls' = Return(c)
      /\ heap' = Collect(heap, chatSessions, calls')
      /\ last' = [op |-> "processMessage", status |-> "error",
                  sid |-> call.sid, call |-> c, at |-> "generate"]
      /\ UNCHANGED <<docVars, now, chatSessions, nextId>>

Responses == {"r1"}

\* options.maxResults: 0 stands for absent (both are falsy in `|| 5`)
MaxResultsOptions == {0, 1}

\* --------------------------------------------------------- documents
\* the sum of the word lengths, by halves (a chunk has hundreds of words)
RECURSIVE SumLengths(_)
SumLengths(words) ==
  IF words = <<>> THEN 0
  ELSE IF Len(words) = 1 THEN words[1]
  ELSE LET half == Len(words) \div 2
       IN  SumLengths(SubSeq(words, 1, half))
             + SumLengths(SubSeq(words, half + 1, Len(words)))

\* the length of words.join(' ')
JoinedLength(words) ==
  IF words = <<>> THEN 0 ELSE SumLengths(words) + Len(words) - 1

\* Mutant: a closed chunk seeds no overlap into the next one.
RECURSIVE AccumulateChunks_NoOverlap(_, _, _)
AccumulateChunks_NoOverlap(sentences, currentChunk, chunks) ==
  IF sentences = <<>>
  THEN IF JoinedLength(currentChunk) > 0 THEN Append(chunks, currentChunk) ELSE chunks
  ELSE LET sentence == Head(sentences)
       IN  IF /\ JoinedLength(currentChunk) + JoinedLength(sentence) > chunkSize
              /\ JoinedLength(currentChunk) > 0
           THEN AccumulateChunks_NoOverlap(Tail(sentences), sentence,
                                           Append(chunks, currentChunk))
           ELSE AccumulateChunks_NoOverlap(Tail(sentences),
                                           currentChunk \o sentence, chunks)

\* the loop of createChunks over the sentences left, and the last push
RECURSIVE AccumulateChunks(_, _, _)
AccumulateChunks(sentences, currentChunk, chunks) ==
  IF sentences = <<>>
  THEN IF JoinedLength(currentChunk) > 0 THEN Append(chunks, currentChunk) ELSE chunks
  ELSE LET sentence == Head(sentences)
       IN  IF /\ JoinedLength(currentChunk) + JoinedLength(sentence) > chunkSize
              /\ JoinedLength(currentChunk) > 0
           THEN AccumulateChunks(
                  Tail(sentences),
                  SliceLast(currentChunk, chunkOverlap \div overlapWordDivisor)
                    \o sentence,
                  Append(chunks, currentChunk))
           ELSE AccumulateChunks(Tail(sentences), currentChunk \o sentence, chunks)

createChunks(text) ==
  SelectSeq(AccumulateChunks(text.sentences, <<>>, <<>>),
            LAMBDA chunk : JoinedLength(chunk) > minChunkLength)

\* the overlapWords of lines 152-153, one entry for every chunk the loop closes
RECURSIVE SeededOverlaps(_, _, _)
SeededOverlaps(sentences, currentChunk, overlaps) ==
  IF sentences = <<>> THEN overlaps
  ELSE LET sentence == Head(sentences)
           overlapWords == SliceLast(currentChunk, chunkOverlap \div overlapWordDivisor)
       IN  IF /\ JoinedLength(currentChunk) + JoinedLength(sentence) > chunkSize
              /\ JoinedLength(currentChunk) > 0
           THEN SeededOverlaps(Tail(sentences), overlapWords \o sentence,
                               Append(overlaps, overlapWords))
           ELSE SeededOverlaps(Tail(sentences), currentChunk \o sentence, overlaps)

\* What extractText can return: blank text (empty or only white space), or
\* text with the given sentences.
Text(blank, sentences) == [blank |-> blank, sentences |-> sentences]

Texts ==
  { Text(TRUE, <<>>),                          \* ""
    Text(FALSE, <<>>),                         \* "..."
    Text(FALSE, << <<5>> >>),                  \* one five-letter sentence
    Text(FALSE, << <<20>>, <<21>>, <<22>> >>), \* three sentences, one chunk
    Text(FALSE, << <<600>>, <<601>> >>) }      \* two sentences, two chunks

supportedTypes == {"pdf", "txt", "md", "docx"}

FileTypes == {"txt", "bin"}

NoDocumentId == <<"absent", 0>>

CallerDocumentIds == { <<"caller", 1>> }

\* metadata.documentId || uuidv4(), with n the next value of uuidv4
documentIdOf(metadata, n) ==
  IF metadata.documentId = NoDocumentId THEN <<"uuid", n>> ELSE metadata.documentId

\* ... and the next value of uuidv4 after it
uuidAfter(metadata, n) ==
  IF metadata.documentId = NoDocumentId THEN n + 1 ELSE n

Embedding(chunk) == [of |-> chunk]

\* the provider's answer to a batch: one embedding per input, in input order
generateBatchEmbeddings(texts) ==
  [i \in 1..Len(texts) |-> Embedding(texts[i])]

VectorId(documentId, index) == [documentId |-> documentId, chunk |-> index]

\* Mutant: the embeddings are attached in reverse order.
generateVectorData_Reversed(chunks, embeddings, documentId) ==
  [i \in 1..Len(chunks) |->
     [id |-> VectorId(documentId, i - 1),
      values |-> embeddings[Len(chunks) + 1 - i],
      metadata |-> [documentId |-> documentId, chunkIndex |-> i - 1,
                    text |-> chunks[i], chunkSize |-> JoinedLength(chunks[i])]]]

\* the chunks.map of generateVectorData (index is zero-based in the code)
generateVectorData(chunks, embeddings, documentId) ==
  [i \in 1..Len(chunks) |->
     [id |-> VectorId(documentId, i - 1),
      values |-> embeddings[i],
      metadata |-> [documentId |-> documentId, chunkIndex |-> i - 1,
                    text |-> chunks[i], chunkSize |-> JoinedLength(chunks[i])]]]

\* index.upsert: an entry replaces the entry of the same id
upsertVectors(index, vectors) ==
  { e \in index : \A i \in 1..Len(vectors) : vectors[i].id # e.id }
    \cup { vectors[i] : i \in 1..Len(vectors) }

IdleIngest(uploads) == [pc |-> "idle", uploads |-> uploads]

\* processDocument's catch: log and rethrow; the call is over
IngestFailed(step, error) ==
  /\ ingest' = IdleIngest(ingest.uploads)
  /\ last' = [op |-> "ingest", step |-> step, status |-> "error", error |-> error,
              path |-> ingest.file.path, chunks |-> ingest.chunks,
              embedCalls |-> ingest.embedCalls, upsertCalls |-> ingest.upsertCalls,
              unlinkAttempted |-> FALSE]

\* The upload route stored the file (multer.diskStorage) and calls
\* processDocument, which runs to await extractText.
processDocument(ext, documentId) ==
  LET path == ingest.uploads + 1
  IN  /\ ingest.pc = "idle"
      /\ ingest.uploads < MaxIngests
      /\ tempFiles' = tempFiles \cup {path}
      /\ ingest' = [pc |-> "extract", uploads |-> path,
                    file |-> [path |-> path, ext |-> ext],
                    metadata |-> [documentId |-> documentId],
                    chunks |-> <<>>, vectors |-> <<>>, embeddings |-> <<>>,
                    embedCalls |-> 0, upsertCalls |-> 0]
      /\ last' = [op |-> "ingest", step |-> "start", status |-> "extracting",
                  path |-> path]
      /\ UNCHANGED <<chatVars, nextId, vectorIndex>>

\* extractText throws: unsupported extension, or the file cannot be read
IngestExtractFailed ==
  /\ ingest.pc = "extract"
  /\ IngestFailed("extract", "extraction")
  /\ UNCHANGED <<chatVars, nextId, vectorIndex, tempFiles>>

\* lines 29-39: extractText answers; check the text, chunk it, call the
\* embedding provider with the whole batch
IngestExtracted(text) ==
  /\ ingest.pc = "extract"
  /\ ingest.file.ext \in supportedTypes
  /\ IF text.blank
     THEN IngestFailed("chunk", "no-text")
     ELSE /\ ingest' = [ingest EXCEPT !.pc = "embed",
                                      !.chunks = createChunks(text),
                                      !.embedCalls = @ + 1]
          /\ last' = [op |-> "ingest", step |-> "chunk", status |-> "embedding",
                      path |-> ingest.file.path, chunks |-> createChunks(text),
                      embedCalls |-> ingest.embedCalls + 1,
                      upsertCalls |-> ingest.upsertCalls]
  /\ UNCHANGED <<chatVars, nextId, vectorIndex, tempFiles>>

\* generateBatchEmbeddings throws
IngestEmbedFailed ==
  /\ ingest.pc = "embed"
  /\ IngestFailed("embed", "embedding")
  /\ UNCHANGED <<chatVars, nextId, vectorIndex, tempFiles>>

\* lines 179-197 and 42: the embeddings arrive; pick the document id, build the
\* vectors, call the index.  Whether the provider accepts an empty batch is
\* its choice: both answers are possible here.
IngestEmbedded ==
  LET embeddings == generateBatchEmbeddings(ingest.chunks)
      documentId == documentIdOf(ingest.metadata, nextId)
      vectors == generateVectorData(ingest.chunks, embeddings, documentId)
  IN  /\ ingest.pc = "embed"
      /\ nextId' = uuidAfter(ingest.metadata, nextId)
      /\ ingest' = [ingest EXCEPT !.pc = "upsert", !.embeddings = embeddings,
                                  !.vectors = vectors, !.upsertCalls = @ + 1]
      /\ last' = [op |-> "ingest", step |-> "embed", status |-> "upserting",
                  path |-> ingest.file.path, chunks |-> ingest.chunks,
                  embedCalls |-> ingest.embedCalls,
                  upsertCalls |-> ingest.upsertCalls + 1]
      /\ UNCHANGED <<chatVars, vectorIndex, tempFiles>>

\* Mutant: a failed upsert is logged and the pipeline goes on to the unlink.
IngestUpsertFailed_Swallowed ==
  /\ ingest.pc = "upsert"
  /\ ingest' = [ingest EXCEPT !.pc = "unlink"]
  /\ last' = [op |-> "ingest", step |-> "upsert", status |-> "error",
              error |-> "index", path |-> ingest.file.path, chunks |-> ingest.chunks,
              embedCalls |-> ingest.embedCalls, upsertCalls |-> ingest.upsertCalls,
              unlinkAttempted |-> FALSE]
  /\ UNCHANGED <<chatVars, nextId, vectorIndex, tempFiles>>

\* upsertVectors throws (index not initialized, or the upsert failed)
IngestUpsertFailed ==
  /\ ingest.pc = "upsert"
  /\ IngestFailed("upsert", "index")
  /\ UNCHANGED <<chatVars, nextId, vectorIndex, tempFiles>>

\* lines 42-46: the index stored the vectors; unlink the uploaded file
IngestUpserted ==
  /\ ingest.pc = "upsert"
  /\ vectorIndex' = upsertVectors(vectorIndex, ingest.vectors)
  /\ ingest' = [ingest EXCEPT !.pc = "unlink"]
  /\ last' = [op |-> "ingest", step |-> "upsert", status |-> "unlinking",
              path |-> ingest.file.path, chunks |-> ingest.chunks,
              embedCalls |-> ingest.embedCalls, upsertCalls |-> ingest.upsertCalls]
  /\ UNCHANGED <<chatVars, nextId, tempFiles>>

\* lines 45-61: unlink answered (a failure is logged and dropped); build the
\* result and return it
IngestUnlinked(removed) ==
  /\ ingest.pc = "unlink"
  /\ tempFiles' = IF removed THEN tempFiles \ {ingest.file.path} ELSE tempFiles
  /\ nextId' = uuidAfter(ingest.metadata, nextId)
  /\ ingest' = IdleIngest(ingest.uploads)
  /\ last' = [op |-> "ingest", step |-> "unlink", status |-> "processed",
              documentId |-> documentIdOf(ingest.metadata, nextId),
              chunksCreated |-> Len(ingest.chunks),
              path |-> ingest.file.path, chunks |-> ingest.chunks,
              embeddings |-> ingest.embeddings, vectors |-> ingest.vectors,
              embedCalls |-> ingest.embedCalls, upsertCalls |-> ingest.upsertCalls,
              unlinkAttempted |-> TRUE]
  /\ UNCHANGED <<chatVars, vectorIndex>>

\* ----------------------------------------------------------- chunker
\* n words of len characters each
Words(n, len) == [i \in 1..n |-> len]

\* Sentences createChunks is given: a five-letter word; nine five-letter words
\* (53 characters); 34 seven-letter words (271); 40 four-letter words (199);
\* one unbroken run of 996 characters.
Sentences ==
  { <<5>>, Words(9, 5), Words(34, 7), Words(40, 4), <<996>> }

ChunkTexts ==
  UNION { [1..n -> Sentences] : n \in 0..MaxSentences }

\* createChunks on the text drawn, with what its loop did on the way: the
\* chunks before the length filter and the overlap seeded after each closed
\* chunk
ChunkText(sentences) ==
  /\ last = [op |-> "text", sentences |-> sentences]
  /\ last' = [op |-> "chunk", sentences |-> sentences,
              raw |-> AccumulateChunks(sentences, <<>>, <<>>),
              overlaps |-> SeededOverlaps(sentences, <<>>, <<>>),
              chunks |-> createChunks(Text(FALSE, sentences))]
  /\ UNCHANGED <<chatVars, nextId, docVars>>

\* ------------------------------------------------------------ search
SearchTopKs == {1, defaultTopK}

SearchCategories == {"null", "technical"}

SearchThresholds == {0, 50, 60, defaultMinScore, 100}

\* GET /api/documents/search: searchDocuments with the index's answer r
SearchDocuments(topK, category, threshold, r) ==
  /\ last' = [op |-> "search", status |-> "ok", answered |-> TRUE,
              topK |-> topK, filter |-> searchFilter(category),
              minScore |-> threshold, matches |-> Matches(r),
              results |-> searchDocuments(Matches(r), threshold)]
  /\ UNCHANGED <<chatVars, nextId, docVars>>

\* generateEmbedding or queryVectors throws, rethrown at 242
SearchDocumentsFailed(topK, category, threshold) ==
  /\ last' = [op |-> "search", status |-> "error", answered |-> FALSE,
              topK |-> topK, filter |-> searchFilter(category),
              minScore |-> threshold]
  /\ UNCHANGED <<chatVars, nextId, docVars>>

\* ---------------------------------------------------- specifications
\* processMessage requests and the answers the providers can give: ids up to
\* `limit` + 1, the message budget, and the sets the message texts, maxResults
\* options, classifier outputs and index matches come from.
Messages(limit, budget, texts, maxResultsOptions, outputs, results) ==
  \/ \E c \in DOMAIN calls, sid \in 1..(limit + 1), m \in texts,
        k \in maxResultsOptions : PMStart(c, sid, m, k, budget)
  \/ \E c \in DOMAIN calls, out \in outputs : PMClassified(c, out)
  \/ \E c \in DOMAIN calls, r \in results : PMSearched(c, r)
  \/ \E c \in DOMAIN calls : PMSearchFailed(c)
  \/ \E c \in DOMAIN calls, t \in Responses : PMGenerated(c, t)
  \/ \E c \in DOMAIN calls : PMGenerateFailed(c)

\* ... and the session requests beside them.
Requests(limit, budget, texts, maxResultsOptions, outputs, results) ==
  \/ createChatSession(limit)
  \/ \E sid \in 1..(limit + 1) : GetSession(sid)
  \/ \E sid \in 1..(limit + 1) : endChatSession(sid)
  \/ Messages(limit, budget, texts, maxResultsOptions, outputs, results)

\* Ids a request can name: those create hands out, and one it never does.
SessionIds == 1..(MaxSessions + 1)

\* Spec: the session lifecycle under a moving clock, one well-formed
\* classifier answer and one match.
Next ==
  \/ Requests(MaxSessions, MaxMsgs, {"m1"}, {0}, HistProviderOutputs, HistIndexResults)
  \/ \E sid \in SessionIds : exportSessionData(sid)
  \/ getActiveSessions
  \/ SweepExpired
  \/ \E d \in {1, sessionTimeout} : Tick(d)

Spec == Init /\ [][Next]_vars

\* SpecHistory: long conversations (up to the trim and past it), clock at rest.
InitHistory == InitWith(HistInFlight)

NextHistory ==
  \/ createChatSession(HistSessions)
  \/ Messages(HistSessions, HistMsgs, {"m1"}, {0}, HistProviderOutputs, HistIndexResults)

SpecHistory == InitHistory /\ [][NextHistory]_vars

\* SpecTimeline: the long conversations of SpecHistory with the clock moving
\* by a millisecond between requests, so that timestamps differ.
NextTimeline ==
  \/ NextHistory
  \/ \E d \in {1} : Tick(d)

SpecTimeline == InitHistory /\ [][NextTimeline]_vars

\* SpecPair: two sessions, requests on both and calls suspended on both at
\* once, a millisecond passing between requests.
InitPair == InitWith(PairInFlight)

NextPair ==
  \/ Requests(PairSessions, PairMsgs, {"m1"}, {0}, HistProviderOutputs, HistIndexResults)
  \/ \E d \in {1} : Tick(d)

SpecPair == InitPair /\ [][NextPair]_vars

\* SpecConcurrent: processMessage calls suspended side by side on one session,
\* through the trim and past it, clock at rest.
InitConcurrent == InitWith(ConcInFlight)

NextConcurrent ==
  \/ createChatSession(ConcSessions)
  \/ Messages(ConcSessions, ConcMsgs, {"m1"}, {0}, HistProviderOutputs, HistIndexResults)

SpecConcurrent == InitConcurrent /\ [][NextConcurrent]_vars

\* SpecAnswers: every kind of classifier output and of index answer, clock at
\* rest.
NextAnswers ==
  Requests(MaxSessions, MaxMsgs, MessageTexts, MaxResultsOptions, ProviderOutputs,
           IndexResults(MaxDocs))

SpecAnswers == Init /\ [][NextAnswers]_vars

\* SpecIngest: document uploads, one at a time, every outcome of the text
\* extraction, the embedding provider, the index and the unlink.
NextIngest ==
  \/ \E ext \in FileTypes, documentId \in {NoDocumentId} \cup CallerDocumentIds :
       processDocument(ext, documentId)
  \/ IngestExtractFailed
  \/ \E text \in Texts : IngestExtracted(text)
  \/ IngestEmbedFailed
  \/ IngestEmbedded
  \/ IngestUpsertFailed
  \/ IngestUpserted
  \/ \E removed \in BOOLEAN : IngestUnlinked(removed)

SpecIngest == Init /\ [][NextIngest]_vars

\* SpecChunks: createChunks on every text of up to MaxSentences sentences.
InitChunks ==
  /\ now = 0
  /\ chatSessions = {}
  /\ heap = [s \in {} |-> NewSession(s, 0)]
  /\ nextId = 1
  /\ calls = [c \in 1..MaxInFlight |-> IdleCall]
  /\ last \in { [op |-> "text", sentences |-> sentences] : sentences \in ChunkTexts }
  /\ ingest = IdleIngest(0)
  /\ vectorIndex = {}
  /\ tempFiles = {}

NextChunks == \E sentences \in ChunkTexts : ChunkText(sentences)

SpecChunks == InitChunks /\ [][NextChunks]_vars

\* SpecSearch: the search route, every option and every answer of the index.
NextSearch ==
  \/ \E topK \in SearchTopKs, category \in SearchCategories,
        threshold \in SearchThresholds :
       \E r \in IndexResults(topK) : SearchDocuments(topK, category, threshold, r)
  \/ \E topK \in SearchTopKs, category \in SearchCategories,
        threshold \in SearchThresholds :
       SearchDocumentsFailed(topK, category, threshold)

SpecSearch == Init /\ [][NextSearch]_vars

\* SpecSweep: several sessions of different ages, the sweep on its own and
\* inside processMessage, under a moving clock.
NextSweep ==
  \/ createChatSession(SweepSessions)
  \/ Messages(SweepSessions, MaxMsgs, {"m1"}, {0}, HistProviderOutputs, HistIndexResults)
  \/ SweepExpired
  \/ \E d \in {1, sessionTimeout} : Tick(d)

SpecSweep == Init /\ [][NextSweep]_vars

\* SpecLive: Spec with clients that never stop: a get, an endSession and a
\* processMessage request (each on some id) keep arriving, and a provider that
\* was called answers.  No timer runs the sweep, so it has no fairness.
ClientsKeepRequesting ==
  /\ WF_vars(\E sid \in SessionIds : GetSession(sid))
  /\ WF_vars(\E sid \in SessionIds : endChatSession(sid))
  /\ WF_vars(\E c \in DOMAIN calls, sid \in SessionIds :
               PMStart(c, sid, "m1", 0, MaxMsgs))

ProvidersAnswer ==
  /\ WF_vars(\E c \in DOMAIN calls, out \in HistProviderOutputs : PMClassified(c, out))
  /\ WF_vars(\E c \in DOMAIN calls, r \in HistIndexResults : PMSearched(c, r))
  /\ WF_vars(\E c \in DOMAIN calls, t \in Responses : PMGenerated(c, t))

SpecLive == Init /\ [][Next]_vars /\ ClientsKeepRequesting /\ ProvidersAnswer

\* ------------------------------------------------------------ claims
Returned == last.op = "processMessage" /\ last.status = "ok"

StoredPair(sid, h) ==
  SubSeq(h[sid].messages, Len(h[sid].messages) - 1, Len(h[sid].messages))

\* C1 (as claimed): a processMessage call that returns successfully leaves the
\* session's stored message count exactly 2 higher than before.
C1_CountUpByTwo ==
  [][(Returned' /\ last'.sid \in DOMAIN heap')
       => Len(heap'[last'.sid].messages) = Len(heap[last'.sid].messages) + 2]_vars

\* C1 (amended): the returning step of processMessage appends the user message
\* and then the assistant message and keeps the newest 2 * maxHistoryLength:
\* the count is 2 higher, or is 2 * maxHistoryLength when that would be passed,
\* and the pair is the end of the list.
C1_CountUpByTwoOrTrimmed ==
  [][(Returned' /\ last'.sid \in DOMAIN heap')
       => LET before == heap[last'.sid].messages
              after == heap'[last'.sid].messages
              pair == <<last'.userMessage, last'.assistantMessage>>
          IN  /\ Len(after) = Min(Len(before) + 2, 2 * maxHistoryLength)
              /\ after = SliceLast(before \o pair, 2 * maxHistoryLength)
              /\ StoredPair(last'.sid, heap') = pair
              /\ pair[1].role = "user" /\ pair[2].role = "assistant"
              /\ pair[2].id = last'.messageId]_vars

\* C1 witness: a call returned on a session that was full, and the two oldest
\* messages were dropped.
C1_Witness ==
  /\ Returned
  /\ last.sid \in DOMAIN heap
  /\ heap[last.sid].seq = 2 * maxHistoryLength + 2
  /\ Len(heap[last.sid].messages) = 2 * maxHistoryLength
  /\ heap[last.sid].messages[1].id = <<last.sid, 3>>

\* C2: in every reachable state no session stores more than maxHistoryLength
\* (20) messages.
C2_HistoryCap ==
  \A s \in chatSessions : Len(heap[s].messages) <= maxHistoryLength

\* C3: processMessage on a session id that is missing from the store or expired
\* fails with session-not-found, starts no classifier, retrieval or generation
\* call, and adds no session to the store.
C3_NotFound ==
  [][\A sid \in SessionIds :
       ( /\ last'.op = "processMessage"
         /\ last'.status \in {"not_found", "classifying"}
         /\ last'.sid = sid
         /\ (sid \notin chatSessions \/ now - heap[sid].lastActivity > sessionTimeout) )
       => /\ last'.status = "not_found"
          /\ calls' = calls
          /\ chatSessions' \subseteq chatSessions
          /\ sid \notin chatSessions']_vars

\* C3 witness: processMessage was refused on a session that was in the store
\* and expired.
C3_Witness ==
  /\ last.op = "processMessage" /\ last.status = "not_found"
  /\ last.reaped
  /\ Busy(calls) = {}

\* C4: get returns not-found for an id that is not in the store and for an
\* expired session; it deletes the expired session and nothing else, and in
\* every other case leaves the store and the sessions as they were.
C4_Get ==
  [][last'.op = "get"
       => LET sid == last'.sid
          IN  IF sid \notin chatSessions
              THEN last'.session = Null /\ chatSessions' = chatSessions /\ heap' = heap
              ELSE IF now - heap[sid].lastActivity > sessionTimeout
              THEN /\ last'.session = Null
                   /\ chatSessions' = chatSessions \ {sid}
                   /\ \A s \in chatSessions' : heap'[s] = heap[s]
              ELSE /\ last'.session = sid
                   /\ chatSessions' = chatSessions
                   /\ heap' = heap]_vars

\* C4 witness: a get found the session expired and deleted it.
C4_Witness ==
  /\ last.op = "get" /\ last.session = Null /\ last.reaped
  /\ last.sid \notin chatSessions

\* C5: an expired session is unreachable through every operation: get,
\* processMessage, endSession, exportSession and the active-session listing
\* treat it as absent, and none changes its messages.
C5_ExpiredUnreachable ==
  [][\A sid \in SessionIds :
       (sid \in chatSessions /\ now - heap[sid].lastActivity > sessionTimeout)
       => /\ (last'.op = "get" /\ last'.sid = sid) => last'.session = Null
          /\ ( /\ last'.op = "processMessage" /\ last'.sid = sid
               /\ last'.status \in {"not_found", "classifying"} )
               => last'.status = "not_found"
          /\ (last'.op = "end" /\ last'.sid = sid) => ~last'.success
          /\ (last'.op = "export" /\ last'.sid = sid) => ~last'.found
          /\ last'.op = "list" => \A e \in last'.sessions : e.sessionId # sid
          /\ sid \in DOMAIN heap' => heap'[sid].messages = heap[sid].messages]_vars

\* C6: endSession returns true exactly when the session is in the store, not
\* expired and still active (then it marks it inactive); on an ended, missing
\* or expired session it returns false.
C6_EndOnce ==
  [][\A sid \in SessionIds :
       (last'.op = "end" /\ last'.sid = sid)
       => /\ last'.success = ( /\ sid \in chatSessions
                               /\ ~(now - heap[sid].lastActivity > sessionTimeout)
                               /\ heap[sid].isActive )
          /\ last'.success => ~heap'[sid].isActive]_vars

\* C7: ended is terminal: once a session is ended, no later step makes it
\* active again, changes its end time or changes its message list.
C7_EndedTerminal ==
  [][\A sid \in DOMAIN heap :
       (~heap[sid].isActive /\ sid \in DOMAIN heap')
       => /\ ~heap'[sid].isActive
          /\ heap'[sid].endedAt = heap[sid].endedAt
          /\ heap'[sid].messages = heap[sid].messages]_vars

\* C8: create registers a new session, and a get with the returned id right
\* after it returns that session, with the same id, no message and the active
\* flag set.
C8_CreateThenGet ==
  [][ /\ last'.op = "create"
        => /\ last'.sessionId \notin chatSessions
           /\ chatSessions' = chatSessions \cup {last'.sessionId}
      /\ (last.op = "create" /\ last'.op = "get" /\ last'.sid = last.sessionId)
        => /\ last'.session = last.sessionId
           /\ heap'[last'.session].id = last.sessionId
           /\ heap'[last'.session].messages = <<>>
           /\ heap'[last'.session].isActive ]_vars

\* C8 witness: a get returned a session at the instant of its creation.
C8_Witness ==
  /\ last.op = "get" /\ last.session # Null
  /\ heap[last.session].seq = 0
  /\ heap[last.session].lastActivity = now
  /\ heap[last.session].isActive

InUnitInterval(c) == ~c.nan /\ c.d > 0 /\ 0 <= c.n /\ c.n <= maxConfidence * c.d

\* C9: the confidence of every assistant message and of every processMessage
\* result lies in [0,1].
C9_ConfidenceInRange ==
  /\ Returned => InUnitInterval(last.confidence)
  /\ \A s \in DOMAIN heap : \A i \in 1..Len(heap[s].messages) :
       heap[s].messages[i].role = "assistant"
         => InUnitInterval(heap[s].messages[i].confidence)

RECURSIVE SumSourceScores(_)
SumSourceScores(sources) ==
  IF sources = <<>> THEN 0 ELSE Head(sources).score + SumSourceScores(Tail(sources))

\* C10: with at least one chunk retrieved, the confidence is
\* min(0.7 * mean(scores) + 0.3 * intentConfidence, 1.0) for every numeric
\* intent confidence, 0.0 included.
C10_ConfidenceFormula ==
  (Returned /\ Len(last.sources) > 0 /\ last.intent.confKind = "num")
  => LET len == Len(last.sources)
         n == avgWeight * SumSourceScores(last.sources)
                + intentWeight * last.intent.confianza * len
         d == 10 * len
     IN  /\ ~last.confidence.nan
         /\ last.confidence.n * d = last.confidence.d * Min(n, maxConfidence * d)

\* C11: when zero chunks are retrieved the confidence is exactly the floor 0.1,
\* whatever the intent's category and confidence are.
C11_FloorWhenNoChunks ==
  /\ (Returned /\ Len(last.sources) = 0)
       => ~last.confidence.nan /\ last.confidence.n = floorConfidence * last.confidence.d
  /\ \A s \in DOMAIN heap : \A i \in 1..Len(heap[s].messages) :
       (heap[s].messages[i].role = "assistant" /\ Len(heap[s].messages[i].sources) = 0)
         => /\ ~heap[s].messages[i].confidence.nan
            /\ heap[s].messages[i].confidence.n
                 = floorConfidence * heap[s].messages[i].confidence.d

\* C11 witness: a call returned with no chunk and an intent whose confidence
\* would have moved the result (a negative number).
C11_Witness ==
  /\ Returned /\ Len(last.sources) = 0
  /\ last.intent.confKind = "num" /\ last.intent.confianza < 0

\* technical_support is soporte_tecnico in the code, billing facturacion,
\* product_info producto_info, account cuenta_usuario, returns_refunds
\* devolucion_reembolso.
ExpectedFilter(categoria) ==
  CASE categoria = "soporte_tecnico" -> [kind |-> "eq", category |-> "technical"]
    [] categoria = "facturacion" -> [kind |-> "eq", category |-> "billing"]
    [] categoria = "producto_info" -> [kind |-> "eq", category |-> "product"]
    [] categoria = "cuenta_usuario" -> [kind |-> "eq", category |-> "account"]
    [] categoria = "devolucion_reembolso" -> [kind |-> "eq", category |-> "returns"]
    [] categoria = "general" -> [kind |-> "none", category |-> "null"]

\* C12: the category filter processMessage passes to the retriever is the image
\* of the classified intent category under the fixed table, for each of the six
\* intent categories (general gives no filter).
C12_CategoryFilter ==
  \A c \in Busy(calls) :
    (calls[c].pc = "search" /\ calls[c].intent.categoria \in Categories)
      => calls[c].filter = ExpectedFilter(calls[c].intent.categoria)

\* C12 witness: a search is under way for an intent of the last category of the
\* table, filtered on returns.
C12_Witness ==
  \E c \in Busy(calls) :
    /\ calls[c].pc = "search"
    /\ calls[c].intent.categoria = "devolucion_reembolso"
    /\ calls[c].filter.category = "returns"

\* the step of processMessage that received the classifier's answer
ClassifierAnswered ==
  /\ last.op = "processMessage"
  /\ \/ last.status = "searching"
     \/ last.status = "error" /\ last.at = "classify"

\* C13: classify never raises: a failed provider call gives {general, 0.0}, an
\* unparseable output gives {general, 0.5}, and in both cases processMessage
\* does not fail and goes on to an unfiltered search.
C13_ClassifierDegrades ==
  ClassifierAnswered
    => /\ last.provider.status = "error"
            => last.intent = Intent("object", "general", "num", 0)
       /\ (last.provider.status = "ok" /\ ~last.provider.parses)
            => last.intent = Intent("object", "general", "num", 50)
       /\ (last.provider.status = "error" \/ ~last.provider.parses)
            => /\ last.status = "searching"
               /\ calls[last.call].pc = "search"
               /\ calls[last.call].sid = last.sid
               /\ calls[last.call].filter.kind = "none"

\* C13 witness: the provider call of the classifier failed and the search was
\* started.
C13_Witness ==
  /\ ClassifierAnswered
  /\ last.provider.status = "error"
  /\ last.status = "searching"
  /\ calls[last.call].pc = "search"

\* C14: whatever the provider outputs, the value classify returns is a
\* {category, confidence} pair whose category is one of the six intent
\* categories.
C14_ClassifierRange ==
  ClassifierAnswered
    => /\ last.intent.kind = "object"
       /\ last.intent.categoria \in Categories
       /\ last.intent.confKind # "undefined"

\* C15: when the generation call fails during processMessage the failure goes
\* to the caller with no substitute answer, and the call has appended neither
\* the user message nor an assistant message: no step of processMessage other
\* than its successful return changes any session's message list.
C15_GenerationFailure ==
  [][(last'.op = "processMessage" /\ last'.status # "ok")
       => /\ \A s \in DOMAIN heap' :
               s \in DOMAIN heap /\ heap'[s].messages = heap[s].messages
          /\ (last'.status = "error" /\ last'.at = "generate")
               => /\ calls[last'.call].pc = "generate"
                  /\ calls'[last'.call] = IdleCall
                  /\ DOMAIN last' = {"op", "status", "sid", "call", "at"}]_vars

\* C15 witness: the generation failed for a session that held one earlier
\* exchange, and the session holds just that exchange.
C15_Witness ==
  /\ last.op = "processMessage" /\ last.status = "error" /\ last.at = "generate"
  /\ last.sid \in DOMAIN heap
  /\ heap[last.sid].seq = 2
  /\ Len(heap[last.sid].messages) = 2

RECURSIVE IsSubsequence(_, _)
IsSubsequence(a, b) ==
  IF a = <<>> THEN TRUE
  ELSE IF b = <<>> THEN FALSE
  ELSE IF Head(a) = Head(b) THEN IsSubsequence(Tail(a), Tail(b))
  ELSE IsSubsequence(a, Tail(b))

\* C16: for every topK, category and minScore, search returns only entries with
\* score >= minScore, in non-increasing order of score, as a subsequence of
\* what the index returned; whenever the index answered, the result (empty
\* included) is returned as a value.
C16_SearchResults ==
  last.op = "search"
    => /\ last.answered => last.status = "ok"
       /\ last.status = "ok"
            => /\ \A i \in 1..Len(last.results) :
                    last.results[i].score >= last.minScore
               /\ \A i \in 1..Len(last.results), j \in 1..Len(last.results) :
                    i < j => last.results[i].score >= last.results[j].score
               /\ IsSubsequence(last.results, last.matches)

\* C16 witness: a search kept the first of two matches and dropped the second.
C16_Witness ==
  /\ last.op = "search" /\ last.status = "ok"
  /\ Len(last.matches) = 2
  /\ last.results = <<last.matches[1]>>

\* C17: the documentId a successful ingest returns is the documentId in the id
\* and in the metadata of every entry it upserted to the index.
C17_SameDocumentId ==
  (last.op = "ingest" /\ last.status = "processed")
    => \A i \in 1..Len(last.vectors) :
         /\ last.vectors[i].id = VectorId(last.documentId, i - 1)
         /\ last.vectors[i].metadata.documentId = last.documentId
         /\ last.vectors[i] \in vectorIndex

\* C18: a successful ingest of n chunks has issued exactly one batch-embedding
\* call and one upsert call; the batch has n entries, entry i carrying the id
\* of chunk i under the batch's document id, the text of chunk i and the
\* embedding returned at position i; the chunk count reported is n.
C18_OneBatch ==
  (last.op = "ingest" /\ last.status = "processed")
    => /\ last.embedCalls = 1
       /\ last.upsertCalls = 1
       /\ Len(last.vectors) = Len(last.chunks)
       /\ Len(last.embeddings) = Len(last.chunks)
       /\ last.chunksCreated = Len(last.chunks)
       /\ \A i \in 1..Len(last.chunks) :
            /\ last.vectors[i].id
                 = VectorId(last.vectors[1].metadata.documentId, i - 1)
            /\ last.vectors[i].metadata.documentId
                 = last.vectors[1].metadata.documentId
            /\ last.vectors[i].metadata.text = last.chunks[i]
            /\ last.vectors[i].values = last.embeddings[i]
            /\ last.vectors[i] \in vectorIndex

\* C18 witness: an ingest of two different chunks returned.
C18_Witness ==
  /\ last.op = "ingest" /\ last.status = "processed"
  /\ last.chunksCreated = 2
  /\ last.chunks[1] # last.chunks[2]
  /\ Cardinality(vectorIndex) >= 2

\* C19: when the extracted text leaves no chunk after the minimum-length
\* filter, ingest fails and issues neither an embedding call nor an upsert (so
\* no ingest reports success with zero chunks).
C19_NoChunksNoCalls ==
  /\ (last.op = "ingest" /\ last.step = "chunk" /\ last.chunks = <<>>)
       => /\ last.status = "error"
          /\ last.embedCalls = 0
          /\ last.upsertCalls = 0
  /\ (last.op = "ingest" /\ last.status = "processed") => last.chunksCreated > 0

\* C20: on every path of ingest, success or failure, the deletion of the
\* uploaded temporary file has been attempted when ingest returns or throws.
C20_TempFileReleased ==
  (last.op = "ingest" /\ last.status \in {"processed", "error"})
    => last.unlinkAttempted

\* C21: for every input text, the overlap the chunker seeds at the start of a
\* chunk (the words copied from the chunk just closed) is at most chunkOverlap
\* (200) characters long.
C21_OverlapBounded ==
  last.op = "chunk"
    => \A i \in 1..Len(last.overlaps) :
         JoinedLength(last.overlaps[i]) <= chunkOverlap

\* the words of sentence, in order and adjacent, are in chunk
ContainsWhole(chunk, sentence) ==
  \E k \in 1..(Len(chunk) - Len(sentence) + 1) :
    SubSeq(chunk, k, k + Len(sentence) - 1) = sentence

C23_PipelineOrder ==
  [][last'.op = "ingest"
       => /\ ingest'.pc # "idle"
               => <<ingest.pc, ingest'.pc>>
                    \in { <<"idle", "extract">>, <<"extract", "embed">>,
                          <<"embed", "upsert">>, <<"upsert", "unlink">> }
          /\ last'.status = "error"
               => /\ ingest'.pc = "idle"
                  /\ vectorIndex' = vectorIndex
                  /\ last'.error
                       = CASE ingest.pc = "extract" /\ last'.step = "extract" -> "extraction"
                           [] ingest.pc = "extract" /\ last'.step = "chunk" -> "no-text"
                           [] ingest.pc = "embed" -> "embedding"
                           [] ingest.pc = "upsert" -> "index"
          /\ (last'.status = "error" /\ ingest.pc = "embed") => last'.upsertCalls = 0
          /\ vectorIndex' # vectorIndex
               => ingest.pc = "upsert" /\ ingest.embedCalls = 1 /\ ingest.upsertCalls = 1
          /\ last'.status = "processed"
               => ingest.pc = "unlink" /\ last'.upsertCalls = 1]_vars

\* C23 witness: the embedding call of a second ingest failed; no upsert was
\* issued and the index holds what the first ingest stored.
C23_Witness ==
  /\ last.op = "ingest" /\ last.status = "error" /\ last.step = "embed"
  /\ last.upsertCalls = 0
  /\ vectorIndex # {}
  /\ ingest.pc = "idle"

\* C24: a sweep (on its own, or the one processMessage runs before it calls
\* the classifier) removes exactly the sessions with now - lastActivity >
\* sessionTimeout: none of those remains, and every other session is still in
\* the Map with the same messages, lastActivity, active flag and end time
\* (processMessage then stamps the lastActivity of its own session).
Swept ==
  \/ last.op = "sweep"
  \/ last.op = "processMessage" /\ last.status = "classifying"

C24_SweepExact ==
  [][Swept'
       => /\ chatSessions' = { s \in chatSessions :
                                 ~(now - heap[s].lastActivity > sessionTimeout) }
          /\ \A s \in chatSessions' : ~(now' - heap'[s].lastActivity > sessionTimeout)
          /\ \A s \in chatSessions' :
               heap'[s] = IF last'.op = "processMessage" /\ s = last'.sid
                          THEN [heap[s] EXCEPT !.lastActivity = now]
                          ELSE heap[s]]_vars

\* C24 witness: a sweep one millisecond past the first session's timeout removed
\* it and kept the second, which is exactly at its timeout and holds a pair.
C24_Witness ==
  /\ last.op = "sweep"
  /\ now = sessionTimeout + 1
  /\ chatSessions = {2}
  /\ heap[2].lastActivity = 1
  /\ Len(heap[2].messages) = 2

\* C25 (as claimed): while clients keep issuing get, processMessage and
\* endSession requests on whatever ids, every session that is expired and
\* still in the Map is eventually removed from it.
C25_ExpiredEventuallyPurged ==
  \A sid \in SessionIds :
    (sid \in chatSessions /\ Expired(heap[sid], now)) ~> (sid \notin chatSessions)

\* C26: once a message is in a session's list its id, role, content and
\* timestamp never change, the retained messages keep their relative order
\* (a step drops only oldest messages and adds only at the end), and the
\* timestamps along every list are non-decreasing - trimming included.
Retained(old, new) ==
  \E d \in 0..Len(old) :
    /\ Len(new) >= Len(old) - d
    /\ \A i \in 1..(Len(old) - d) : new[i] = old[d + i]
    /\ \A i \in (Len(old) - d + 1)..Len(new), j \in 1..Len(old) : new[i].id # old[j].id

TimeOrdered(messages) ==
  \A i, j \in 1..Len(messages) : i < j => messages[i].timestamp <= messages[j].timestamp

C26_MessagesImmutable ==
  /\ [](\A s \in DOMAIN heap : TimeOrdered(heap[s].messages))
  /\ [][\A s \in DOMAIN heap \cap DOMAIN heap' :
           Retained(heap[s].messages, heap'[s].messages)]_vars

\* C26 witness: a call returned on a full list after the clock moved: the two
\* oldest messages are gone, the oldest kept carries the earlier timestamp and
\* the new pair the later one.
C26_Witness ==
  /\ Returned
  /\ last.sid \in DOMAIN heap
  /\ heap[last.sid].seq > 2 * maxHistoryLength
  /\ Len(heap[last.sid].messages) = 2 * maxHistoryLength
  /\ heap[last.sid].messages[1].timestamp = 0
  /\ heap[last.sid].messages[2 * maxHistoryLength].timestamp = 1

\* C27: a create, get, endSession or processMessage step on session A leaves
\* every other non-expired session B in the Map with the same messages,
\* lastActivity, active flag and end time.
Named ==
  IF last.op = "create" THEN {last.sessionId}
  ELSE IF last.op \in {"get", "end", "processMessage"} THEN {last.sid}
  ELSE {}

C27_SessionsIndependent ==
  [][\A A \in Named' :
       \A B \in chatSessions \ {A} :
         ~(now - heap[B].lastActivity > sessionTimeout)
           => B \in chatSessions' /\ heap'[B] = heap[B]]_vars

\* C27 witness: session 1 was ended while session 2, created a millisecond
\* later, holds a pair and has a second call suspended; session 2 is as it was.
C27_Witness ==
  /\ last.op = "end" /\ last.sid = 1 /\ last.success
  /\ ~heap[1].isActive
  /\ 2 \in chatSessions
  /\ heap[2].isActive /\ heap[2].endedAt = NoTime
  /\ heap[2].lastActivity = 1
  /\ Len(heap[2].messages) = 2
  /\ \E c \in Busy(calls) : calls[c].sid = 2

\* C28: the history processMessage hands to the generator is the last
\* min(10, n) messages of the session's stored list, in append order, and it
\* is taken before the user message of the call exists: the message being
\* answered is never in it.
HandedOver == last.op = "processMessage" /\ last.status = "generating"

C28_HistoryWindow ==
  /\ [][HandedOver'
          => LET stored == heap[last'.sid].messages
                 chatHistory == calls'[last'.call].chatHistory
                 n == Len(stored)
                 k == IF n < historyWindow THEN n ELSE historyWindow
             IN  /\ Len(chatHistory) = k
                 /\ \A i \in 1..k : chatHistory[i] = stored[n - k + i]]_vars
  /\ [][Returned'
          => \A i \in 1..Len(calls[last'.call].chatHistory) :
               calls[last'.call].chatHistory[i].id # last'.userMessage.id]_vars

\* C28 witness: the generator is being called on a session that holds more
\* than ten messages, with exactly the ten newest.
C28_Witness ==
  /\ HandedOver
  /\ Len(heap[last.sid].messages) = historyWindow + 4
  /\ Len(calls[last.call].chatHistory) = historyWindow
  /\ calls[last.call].chatHistory[1] = heap[last.sid].messages[5]

\* C29: however processMessage calls on one session interleave at their
\* awaits, every stored list has even length and alternates user, assistant:
\* each call's user and assistant message sit next to each other, and the
\* trim never cuts a pair in two.
PairsWhole(s, messages) ==
  /\ Len(messages) % 2 = 0
  /\ \A i \in 1..Len(messages) :
       IF i % 2 = 1
       THEN /\ messages[i].role = "user"
            /\ messages[i + 1].role = "assistant"
            /\ messages[i + 1].id = <<s, messages[i].id[2] + 1>>
       ELSE messages[i].role = "assistant"

C29_PairsAtomic == \A s \in DOMAIN heap : PairsWhole(s, heap[s].messages)

\* C29 witness: a call returned on a full list, which was trimmed, while
\* another call on the same session is still suspended.
C29_Witness ==
  /\ Returned
  /\ last.sid \in DOMAIN heap
  /\ heap[last.sid].seq > 2 * maxHistoryLength
  /\ Len(heap[last.sid].messages) = 2 * maxHistoryLength
  /\ \E c \in Busy(calls) : calls[c].sid = last.sid

\* C30 (as claimed): whenever processMessage returns a response for session
\* S, the session is stored under S in the Map and the call's user and
\* assistant message are the last two messages of that stored session,
\* whatever other requests ran while the call was suspended.
C30_PairStoredUnderS ==
  Returned
    => /\ last.sid \in chatSessions
       /\ StoredPair(last.sid, heap) = <<last.userMessage, last.assistantMessage>>
====
